---- MODULE Spec2Model ----
(***************************************************************************)
(* Real-time transcription pipeline of src/main.py:                        *)
(*   ContinuousAudioRecorder     capture thread -> audio_queue -> segments *)
(*   ParallelTranscriptionClient ThreadPoolExecutor, pending table and the *)
(*                               session JSON file                         *)
(*   main                        the control loop and the shutdown path    *)
(***************************************************************************)
EXTENDS Integers, Sequences, FiniteSets, TLC

\* ------------------------------------------------------------------ bounds
\* Segments the control loop may submit in one run.
MaxSegments == 2
\* Chunks the capture thread may push in one run.
MaxChunks == 3
\* Recorder configuration of the control-loop model: main() runs 44100 Hz,
\* 2048-frame chunks and 10 s segments (215 chunks a segment); the model
\* keeps the computation and scales the three parameters down.
ModelSampleRate == 4
ModelChunkSize == 2
ModelDuration == 1
\* Caller threads and calls per thread of the store-level specification.
NumThreads == 2
MaxCalls == 1
\* Chunks pre-loaded in the segmenter-level specification.
MaxPreload == 10
\* Retries of a timed-out get that the retrying variant of the loop makes.
MaxRetries == 2

\* --------------------------------------------------------- program constants
\* ParallelTranscriptionClient(max_workers=2)
DefaultMaxWorkers == 2

SegIds == 0 .. (MaxSegments - 1)
Threads == 1 .. NumThreads
NoThread == 0

VARIABLES
    \* ContinuousAudioRecorder
    sample_rate,        \* self.sample_rate
    chunk_size,         \* self.chunk_size
    duration,           \* get_audio_segment(duration), a rational <<num, den>>
    recording,          \* self.recording
    recPc,              \* position of the capture thread
    audio_queue,        \* self.audio_queue (queue.Queue), head first
    nread,              \* chunks pushed so far; chunk k carries data k
    pushed,             \* history: every chunk put in audio_queue, in order
    popped,             \* history: every chunk got from audio_queue, in order
    \* get_audio_segment locals
    segI,               \* loop index i of range(frames_needed)
    frames,             \* frames collected by the running call
    empty_count,        \* consecutive timeouts of the running call
    timeouts,           \* history: gets of the running call that timed out
    \* ParallelTranscriptionClient
    max_workers,        \* self.max_workers
    executor_queue,     \* work items of self.executor not started yet
    running,            \* segments whose _transcribe_single is executing
    futState,           \* per segment: "none", "queued", "running", "done"
    futResult,          \* per segment: what future.result() gives once done
    engineRaised,       \* history: segments whose engine call raised
    shutdownDone,       \* executor.shutdown(wait=True) has returned
    pending_transcriptions, \* self.pending_transcriptions, as [id -> task]
    files,              \* temporary segment files on disk (by segment id)
    json_file,          \* content of the session JSON file
    json_lock,          \* holder of self.json_lock, NoThread when free
    now,                \* logical datetime.now()
    \* main
    mainPc,             \* position of the control thread
    segment_counter,    \* segment_counter
    pollTodo,           \* items of the running check_completed_transcriptions
    completed,          \* its local list `completed`
    pollSize,           \* size of the table when its for loop began
    exitCode,           \* sys.exit status, <<>> while running
    \* store-level callers
    apiPc,              \* per caller thread: position in its call
    apiData,            \* per caller thread: local `data` read from the file
    apiEntry,           \* per caller thread: transcription_entry of its call
    apiCalls,           \* per caller thread: calls made so far
    returned,           \* history: entries whose save_transcription returned
    \* histories of the control thread
    delivered,          \* chunks of the segments get_audio_segment returned
    saveFailed          \* tasks whose try block in the poll loop raised

vars == <<sample_rate, chunk_size, duration, recording, recPc, audio_queue,
          nread, pushed, popped, segI, frames, empty_count, timeouts,
          max_workers, executor_queue, running, futState, futResult,
          engineRaised, shutdownDone, pending_transcriptions, files,
          json_file, json_lock, now, mainPc, segment_counter, pollTodo,
          completed, pollSize, exitCode, apiPc, apiData, apiEntry,
          apiCalls, returned, delivered, saveFailed>>

recorderVars == <<sample_rate, chunk_size, duration, recording, recPc,
                  audio_queue, nread, pushed>>
segmentVars == <<popped, segI, frames, empty_count, timeouts>>
poolVars == <<max_workers, executor_queue, running, futState, futResult,
              engineRaised, shutdownDone>>
storeVars == <<json_file, json_lock>>
apiVars == <<apiPc, apiData, apiEntry, apiCalls, returned>>
pollVars == <<pollTodo, completed, pollSize>>
histVars == <<delivered, saveFailed>>

\* ------------------------------------------------------------------- texts
\* A text is a sequence of tokens: "w" a word, "s" white space, "a" one of
\* the artifacts '<|', '|>', '[BLANK_AUDIO]', '(SILENCE)', '...'.
RECURSIVE LStrip(_)
LStrip(t) == IF t # <<>> /\ Head(t) = "s" THEN LStrip(Tail(t)) ELSE t

RECURSIVE RStrip(_)
RStrip(t) ==
    IF t # <<>> /\ t[Len(t)] = "s" THEN RStrip(SubSeq(t, 1, Len(t) - 1)) ELSE t

\* str.strip()
Strip(t) == RStrip(LStrip(t))

\* for artifact in artifacts: text = text.replace(artifact, '')
RemoveArtifacts(t) == SelectSeq(t, LAMBDA c : c # "a")

\* What the engine may return as result["text"].
EngineTexts == { <<"s", "w">>, <<"a", "s", "a">>, <<"a">> }
\* One call of whisper_model.transcribe: it returns a text or raises.
EngineRaises == [raises |-> TRUE, text |-> <<>>]
EngineOutcomes ==
    {[raises |-> FALSE, text |-> t] : t \in EngineTexts} \cup {EngineRaises}

\* A future's outcome: not resolved, resolved to a text, or holding an
\* exception that future.result() re-raises.
NoResult == [kind |-> "none", text |-> <<>>]
TextResult(t) == [kind |-> "text", text |-> t]
ExcResult == [kind |-> "exception", text |-> <<>>]

\* _transcribe_single with the engine's exception escaping the function.
TranscribeSingleNoCatch(outcome) ==
    IF outcome = EngineRaises
    THEN ExcResult
    ELSE TextResult(RemoveArtifacts(Strip(outcome.text)))

\* _transcribe_single: the value the future resolves to.
TranscribeSingle(outcome) ==
    IF outcome = EngineRaises
    THEN TextResult(<<>>)
    ELSE TextResult(RemoveArtifacts(Strip(outcome.text)))

\* ---------------------------------------------------------------- segmenter
\* frames_needed with the quotient rounded up.
FramesNeededCeil(sr, cs, d) ==
    ((sr * d[1]) + (cs * d[2]) - 1) \div (cs * d[2])

\* frames_needed = int(self.sample_rate / self.chunk_size * duration)
FramesNeeded(sr, cs, d) == (sr * d[1]) \div (cs * d[2])

frames_needed == FramesNeeded(sample_rate, chunk_size, duration)

\* -------------------------------------------------------------- session store
\* init_json_file: the record written at construction. An absent key is <<>>,
\* a present one <<value>>.
InitJson ==
    [status |-> "active", end_time |-> <<>>, total_transcriptions |-> <<>>,
     transcriptions |-> <<>>]

\* transcription_entry of save_transcription
TranscriptionEntry(text, timestamp) ==
    [timestamp |-> timestamp, text |-> Strip(text)]

\* The append made on a fresh record, as if the session file were missing.
AppendEntryFreshSession(data, entry) ==
    [InitJson EXCEPT !.transcriptions = Append(data.transcriptions, entry)]

\* data["transcriptions"].append(transcription_entry)
AppendEntry(data, entry) ==
    [data EXCEPT !.transcriptions = Append(@, entry)]

\* finalize_session with the status left as it was read.
FinalizeDataKeepStatus(data, t) ==
    [data EXCEPT !.end_time = <<t>>,
                 !.total_transcriptions = <<Len(data.transcriptions)>>]

\* finalize_session: end_time, status and total_transcriptions of the record
FinalizeData(data, t) ==
    [data EXCEPT !.end_time = <<t>>,
                 !.status = "completed",
                 !.total_transcriptions = <<Len(data.transcriptions)>>]

\* ------------------------------------------------------------ initial states
InitRecorder ==
    /\ recording = FALSE
    /\ recPc = "idle"
    /\ audio_queue = <<>>
    /\ nread = 0
    /\ pushed = <<>>

InitSegmenter ==
    /\ popped = <<>>
    /\ segI = 0
    /\ frames = <<>>
    /\ empty_count = 0
    /\ timeouts = 0

InitClient ==
    /\ max_workers \in 1 .. DefaultMaxWorkers
    /\ executor_queue = <<>>
    /\ running = {}
    /\ futState = [s \in SegIds |-> "none"]
    /\ futResult = [s \in SegIds |-> NoResult]
    /\ engineRaised = {}
    /\ shutdownDone = FALSE
    /\ pending_transcriptions = <<>>
    /\ files = {}
    /\ json_file = InitJson
    /\ json_lock = NoThread
    /\ now = 0

InitMain ==
    /\ segment_counter = 0
    /\ pollTodo = {}
    /\ completed = {}
    /\ pollSize = 0
    /\ exitCode = <<>>
    /\ delivered = <<>>
    /\ saveFailed = {}

InitApi ==
    /\ apiPc = [t \in Threads |-> "idle"]
    /\ apiData = [t \in Threads |-> InitJson]
    /\ apiEntry = [t \in Threads |-> TranscriptionEntry(<<>>, 0)]
    /\ apiCalls = [t \in Threads |-> 0]
    /\ returned = {}

\* The state main() is in once both objects are constructed.
Init ==
    /\ sample_rate = ModelSampleRate
    /\ chunk_size = ModelChunkSize
    /\ duration = <<ModelDuration, 1>>
    /\ InitRecorder
    /\ InitSegmenter
    /\ InitClient
    /\ InitMain
    /\ InitApi
    /\ mainPc = "start"

\* ------------------------------------------------------------ capture thread
\* start_continuous_recording, then time.sleep(2)
StartRecording ==
    /\ mainPc = "start"
    /\ recording' = TRUE
    /\ recPc' = "open"
    /\ mainPc' = "poll"
    /\ UNCHANGED <<sample_rate, chunk_size, duration, audio_queue, nread,
                   pushed, segmentVars, poolVars, pending_transcriptions,
                   files, storeVars, now, segment_counter, pollVars,
                   exitCode, apiVars, histVars>>

\* self.audio.open(...): the stream opens
RecOpenOk ==
    /\ recPc = "open"
    /\ recPc' = "loop"
    /\ UNCHANGED <<sample_rate, chunk_size, duration, recording, audio_queue,
                   nread, pushed, segmentVars, poolVars,
                   pending_transcriptions, files, storeVars, now, mainPc,
                   segment_counter, pollVars, exitCode, apiVars, histVars>>

\* self.audio.open(...) raises: except Exception: the error is printed and
\* the thread returns; nothing is reported to the control thread.
RecOpenFails ==
    /\ recPc = "open"
    /\ recPc' = "open_failed"
    /\ UNCHANGED <<sample_rate, chunk_size, duration, recording, audio_queue,
                   nread, pushed, segmentVars, poolVars,
                   pending_transcriptions, files, storeVars, now, mainPc,
                   segment_counter, pollVars, exitCode, apiVars, histVars>>

\* queue.Queue.put with the chunk placed at the head.
QueuePutFront(q, x) == <<x>> \o q

\* queue.Queue.put
QueuePut(q, x) == Append(q, x)

\* One pass of `while self.recording` whose stream.read returns a chunk:
\* if data: self.audio_queue.put(data)
RecReadChunk ==
    /\ recPc = "loop"
    /\ recording
    /\ nread < MaxChunks
    /\ nread' = nread + 1
    /\ audio_queue' = QueuePut(audio_queue, nread + 1)
    /\ pushed' = Append(pushed, nread + 1)
    /\ UNCHANGED <<sample_rate, chunk_size, duration, recording, recPc,
                   segmentVars, poolVars, pending_transcriptions, files,
                   storeVars, now, mainPc, segment_counter, pollVars,
                   exitCode, apiVars, histVars>>

\* One pass whose stream.read returns no data, or raises (logged, continue):
\* nothing is put and the thread is back at the test of the loop.
RecReadNothing ==
    /\ recPc = "loop"
    /\ recording
    /\ UNCHANGED vars

\* The pass whose stream.read raises, step by step: the inner
\* `except Exception` is entered and the error printed.
RecReadFails ==
    /\ recPc = "loop"
    /\ recording
    /\ recPc' = "read_error"
    /\ UNCHANGED <<sample_rate, chunk_size, duration, recording, audio_queue,
                   nread, pushed, segmentVars, poolVars,
                   pending_transcriptions, files, storeVars, now, mainPc,
                   segment_counter, pollVars, exitCode, apiVars, histVars>>

\* `continue` of the inner handler: back to the test of `while self.recording`
RecContinue ==
    /\ recPc = "read_error"
    /\ recPc' = "loop"
    /\ UNCHANGED <<sample_rate, chunk_size, duration, recording, audio_queue,
                   nread, pushed, segmentVars, poolVars,
                   pending_transcriptions, files, storeVars, now, mainPc,
                   segment_counter, pollVars, exitCode, apiVars, histVars>>

\* `while self.recording` ends; finally: stop_stream, close
RecStop ==
    /\ recPc = "loop"
    /\ ~recording
    /\ recPc' = "exited"
    /\ UNCHANGED <<sample_rate, chunk_size, duration, recording, audio_queue,
                   nread, pushed, segmentVars, poolVars,
                   pending_transcriptions, files, storeVars, now, mainPc,
                   segment_counter, pollVars, exitCode, apiVars, histVars>>

\* ----------------------------------------------------------------- segmenter
\* queue.Queue.get taking the newest chunk.
QueueGetLast(q) == [frame |-> q[Len(q)], rest |-> SubSeq(q, 1, Len(q) - 1)]

\* queue.Queue.get handing out the oldest chunk without removing it.
QueueGetKeep(q) == [frame |-> Head(q), rest |-> q]

\* queue.Queue.get: the oldest chunk and the remaining queue
QueueGet(q) == [frame |-> Head(q), rest |-> Tail(q)]

\* get_audio_segment is entered: frames_needed, frames = [], empty_count = 0
SegBegin ==
    /\ mainPc = "collect"
    /\ segment_counter < MaxSegments
    /\ segI' = 0
    /\ frames' = <<>>
    /\ empty_count' = 0
    /\ timeouts' = 0
    /\ mainPc' = "seg_loop"
    /\ UNCHANGED <<recorderVars, popped, poolVars,
                   pending_transcriptions, files, storeVars, now,
                   segment_counter, pollVars, exitCode, apiVars, histVars>>

\* One pass of `for i in range(frames_needed)` whose get returns a frame.
SegPop ==
    /\ mainPc = "seg_loop"
    /\ segI < frames_needed
    /\ audio_queue # <<>>
    /\ LET got == QueueGet(audio_queue) IN
        /\ audio_queue' = got.rest
        /\ frames' = Append(frames, got.frame)
        /\ popped' = Append(popped, got.frame)
    /\ empty_count' = 0
    /\ timeouts' = timeouts
    /\ segI' = segI + 1
    /\ UNCHANGED <<sample_rate, chunk_size, duration, recording, recPc, nread,
                   pushed, poolVars, pending_transcriptions, files,
                   storeVars, now, mainPc, segment_counter, pollVars,
                   exitCode, apiVars, histVars>>

\* A pass whose get times out and that is tried again: the attempt is not
\* counted.
SegTimeoutRetry ==
    /\ mainPc = "seg_loop"
    /\ segI < frames_needed
    /\ audio_queue = <<>>
    /\ UNCHANGED vars

\* A pass whose get times out, is noted, and is tried again without using up
\* an attempt (at most MaxRetries times in a call).
SegTimeoutNotCounted ==
    /\ mainPc = "seg_loop"
    /\ segI < frames_needed
    /\ audio_queue = <<>>
    /\ timeouts < MaxRetries
    /\ empty_count' = empty_count + 1
    /\ timeouts' = timeouts + 1
    /\ UNCHANGED <<recorderVars, popped, segI, frames, poolVars,
                   pending_transcriptions, files, storeVars, now, mainPc,
                   segment_counter, pollVars, exitCode, apiVars, histVars>>

\* One pass whose get(timeout=2.0) raises queue.Empty: the queue stayed empty.
SegTimeout ==
    /\ mainPc = "seg_loop"
    /\ segI < frames_needed
    /\ audio_queue = <<>>
    /\ empty_count' = empty_count + 1
    /\ timeouts' = timeouts + 1
    /\ segI' = segI + 1
    /\ UNCHANGED <<recorderVars, popped, frames, poolVars,
                   pending_transcriptions, files, storeVars, now, mainPc,
                   segment_counter, pollVars, exitCode, apiVars, histVars>>

\* A test of the collected frames that never reports "nothing collected".
NoFramesNever(fr) == FALSE

\* A test that also treats a segment shorter than frames_needed as nothing.
NoFramesUnlessFull(fr) == Len(fr) < frames_needed

\* `if not frames`: the list of collected frames is empty
NoFrames(fr) == fr = <<>>

\* The loop is over and no frame was collected: return None.
SegNoData ==
    /\ mainPc = "seg_loop"
    /\ segI = frames_needed
    /\ NoFrames(frames)
    /\ mainPc' = "no_data"
    /\ UNCHANGED <<recorderVars, segmentVars, poolVars,
                   pending_transcriptions, files, storeVars, now,
                   segment_counter, pollVars, exitCode, apiVars, histVars>>

\* main, temp_audio is None: "pas de données" is printed; the locals of the
\* call that returned are gone.
NoData ==
    /\ mainPc = "no_data"
    /\ segI' = 0
    /\ frames' = <<>>
    /\ empty_count' = 0
    /\ timeouts' = 0
    /\ mainPc' = "sleep"
    /\ UNCHANGED <<recorderVars, popped, poolVars, pending_transcriptions,
                   files, storeVars, now, segment_counter, pollVars,
                   exitCode, apiVars, histVars>>

\* The loop is over with frames: the wav file (b''.join(frames)) is written
\* and its name returned; frames keeps what the file holds.
SegWrite ==
    /\ mainPc = "seg_loop"
    /\ segI = frames_needed
    /\ ~NoFrames(frames)
    /\ files' = files \cup {segment_counter}
    /\ mainPc' = "submit"
    /\ delivered' = delivered \o frames
    /\ UNCHANGED <<recorderVars, popped, segI, frames, empty_count, timeouts,
                   poolVars,
                   pending_transcriptions, storeVars, now, segment_counter,
                   pollVars, exitCode, apiVars, saveFailed>>

\* ---------------------------------------------------------------- dispatcher
\* A pool that starts a work item whenever one is queued.
PoolHasIdleWorkerUnbounded == TRUE

\* ThreadPoolExecutor(max_workers=max_workers): a queued work item starts
\* only while fewer than max_workers are executing
PoolHasIdleWorker == Cardinality(running) < max_workers

\* main, temp_audio is a file name (the locals of the call that returned are
\* gone); transcribe_audio_async, first statement: self.executor.submit(...)
Submit ==
    /\ mainPc = "submit"
    /\ ~shutdownDone
    /\ executor_queue' = Append(executor_queue, segment_counter)
    /\ futState' = [futState EXCEPT ![segment_counter] = "queued"]
    /\ segI' = 0
    /\ frames' = <<>>
    /\ empty_count' = 0
    /\ timeouts' = 0
    /\ mainPc' = "register"
    /\ UNCHANGED <<recorderVars, popped, max_workers, running, futResult,
                   engineRaised, shutdownDone, pending_transcriptions, files,
                   storeVars, now, segment_counter, pollVars, exitCode,
                   apiVars, histVars>>

\* transcribe_audio_async, second statement: the task enters the pending
\* table; back in main, segment_counter += 1
Register ==
    /\ mainPc = "register"
    /\ pending_transcriptions' =
           [s \in (DOMAIN pending_transcriptions) \cup {segment_counter} |->
               IF s = segment_counter
               THEN [audio_file |-> segment_counter, timestamp |-> now]
               ELSE pending_transcriptions[s]]
    /\ now' = now + 1
    /\ segment_counter' = segment_counter + 1
    /\ mainPc' = "sleep"
    /\ UNCHANGED <<recorderVars, segmentVars, poolVars, files, storeVars,
                   pollVars, exitCode, apiVars, histVars>>

\* A worker thread of the pool takes the oldest queued work item.
WorkerStart ==
    /\ executor_queue # <<>>
    /\ PoolHasIdleWorker
    /\ running' = running \cup {Head(executor_queue)}
    /\ futState' = [futState EXCEPT ![Head(executor_queue)] = "running"]
    /\ executor_queue' = Tail(executor_queue)
    /\ UNCHANGED <<recorderVars, segmentVars, max_workers, futResult,
                   engineRaised, shutdownDone, pending_transcriptions, files,
                   storeVars, now, mainPc, segment_counter, pollVars,
                   exitCode, apiVars, histVars>>

\* _transcribe_single returns in a worker thread; the future resolves.
WorkerFinish(s) ==
    /\ s \in running
    /\ \E outcome \in EngineOutcomes :
        /\ futResult' = [futResult EXCEPT ![s] = TranscribeSingle(outcome)]
        /\ engineRaised' =
               IF outcome = EngineRaises
               THEN engineRaised \cup {s}
               ELSE engineRaised
    /\ futState' = [futState EXCEPT ![s] = "done"]
    /\ running' = running \ {s}
    /\ UNCHANGED <<recorderVars, segmentVars, max_workers, executor_queue,
                   shutdownDone, pending_transcriptions, files, storeVars,
                   now, mainPc, segment_counter, pollVars, exitCode, apiVars,
                   histVars>>

\* ------------------------------------------- check_completed_transcriptions
LoopPcs == {"poll", "poll_iter", "collect", "seg_loop", "no_data", "submit",
            "register", "sleep"}

\* The item the for loop over pending_transcriptions.items() inspects next:
\* a dict iterates in insertion order, which is the order of the ids.
NextItem == CHOOSE s \in pollTodo : \A r \in pollTodo : s <= r

\* save_transcription run by one thread alone: lock, read, append, write.
SaveTranscription(data, text, timestamp) ==
    AppendEntry(data, TranscriptionEntry(text, timestamp))

\* The for loop over pending_transcriptions.items() can step: a dict iterator
\* raises RuntimeError once the dict has another size than when the loop began
DictSameSize == Cardinality(DOMAIN pending_transcriptions) = pollSize

\* A test that takes every task in the table for finished.
FutureDoneAlways(s) == TRUE

\* future.done(): the work item has returned or raised
FutureDone(s) == futState[s] = "done"

\* The call starts in the control loop: completed = [], the loop begins.
PollBegin ==
    /\ mainPc = "poll"
    /\ pollTodo' = DOMAIN pending_transcriptions
    /\ completed' = {}
    /\ pollSize' = Cardinality(DOMAIN pending_transcriptions)
    /\ mainPc' = "poll_iter"
    /\ UNCHANGED <<recorderVars, segmentVars, poolVars,
                   pending_transcriptions, files, storeVars, now,
                   segment_counter, exitCode, apiVars, histVars>>

\* future.done() is False: the item is left alone.
PollSkip ==
    /\ mainPc \in {"poll_iter", "drain_iter"}
    /\ pollTodo # {}
    /\ DictSameSize
    /\ ~FutureDone(NextItem)
    /\ pollTodo' = pollTodo \ {NextItem}
    /\ pollSize' = pollSize
    /\ UNCHANGED <<recorderVars, segmentVars, poolVars,
                   pending_transcriptions, files, storeVars, now, mainPc,
                   segment_counter, completed, exitCode, apiVars, histVars>>

\* future.done() is True and the try block runs through: the result is
\* saved, the audio file removed (a failing os.remove is only logged) and the
\* id appended to completed.
PollSaved ==
    /\ mainPc \in {"poll_iter", "drain_iter"}
    /\ pollTodo # {}
    /\ DictSameSize
    /\ FutureDone(NextItem)
    /\ futResult[NextItem].kind = "text"
    /\ json_file' = SaveTranscription(json_file, futResult[NextItem].text,
                        pending_transcriptions[NextItem].timestamp)
    /\ files' = files \ {pending_transcriptions[NextItem].audio_file}
    /\ completed' = completed \cup {NextItem}
    /\ pollTodo' = pollTodo \ {NextItem}
    /\ pollSize' = pollSize
    /\ UNCHANGED <<recorderVars, segmentVars, poolVars,
                   pending_transcriptions, json_lock, now, mainPc,
                   segment_counter, exitCode, apiVars, histVars>>

\* The try block raises and nothing in check_completed_transcriptions catches
\* it: the call is abandoned; in the control loop the loop's own handler
\* takes over, in finalize_session the exception ends the program.
PollFailsPropagates ==
    /\ mainPc \in {"poll_iter", "drain_iter"}
    /\ pollTodo # {}
    /\ FutureDone(NextItem)
    /\ saveFailed' = saveFailed \cup {NextItem}
    /\ pollTodo' = {}
    /\ completed' = {}
    /\ pollSize' = 0
    /\ mainPc' = IF mainPc = "poll_iter" THEN "sleep" ELSE "cleanup"
    /\ UNCHANGED <<recorderVars, segmentVars, poolVars,
                   pending_transcriptions, files, storeVars, now,
                   segment_counter, exitCode, apiVars, delivered>>

\* future.done() is True and the try block raises, in future.result() (the
\* future holds an exception) or in save_transcription (the session file
\* cannot be read or written): except Exception ... completed.append(id).
PollFails ==
    /\ mainPc \in {"poll_iter", "drain_iter"}
    /\ pollTodo # {}
    /\ DictSameSize
    /\ FutureDone(NextItem)
    /\ completed' = completed \cup {NextItem}
    /\ pollTodo' = pollTodo \ {NextItem}
    /\ pollSize' = pollSize
    /\ saveFailed' = saveFailed \cup {NextItem}
    /\ UNCHANGED <<recorderVars, segmentVars, poolVars,
                   pending_transcriptions, files, storeVars, now, mainPc,
                   segment_counter, exitCode, apiVars, delivered>>

\* for segment_id in completed: del self.pending_transcriptions[segment_id]
PollEnd ==
    /\ mainPc \in {"poll_iter", "drain_iter"}
    /\ pollTodo = {}
    /\ DictSameSize
    /\ pending_transcriptions' =
           [s \in (DOMAIN pending_transcriptions) \ completed |->
               pending_transcriptions[s]]
    /\ completed' = {}
    /\ pollSize' = 0
    /\ mainPc' = IF mainPc = "poll_iter" THEN "collect" ELSE "drain"
    /\ UNCHANGED <<recorderVars, segmentVars, poolVars, files, storeVars,
                   now, segment_counter, pollTodo, exitCode, apiVars,
                   histVars>>

\* time.sleep(3) at the end of one pass of the control loop
Sleep ==
    /\ mainPc = "sleep"
    /\ mainPc' = "poll"
    /\ UNCHANGED <<recorderVars, segmentVars, poolVars,
                   pending_transcriptions, files, storeVars, now,
                   segment_counter, pollVars, exitCode, apiVars, histVars>>

\* ------------------------------------------------------------------ shutdown
\* KeyboardInterrupt reaches the control thread somewhere in the loop: the
\* locals of the interrupted calls are gone and finalize_session is entered.
Interrupt ==
    /\ mainPc \in LoopPcs
    /\ mainPc' = "drain"
    /\ pollTodo' = {}
    /\ completed' = {}
    /\ pollSize' = 0
    /\ segI' = 0
    /\ frames' = <<>>
    /\ empty_count' = 0
    /\ timeouts' = 0
    /\ UNCHANGED <<recorderVars, popped, poolVars,
                   pending_transcriptions, files, storeVars, now,
                   segment_counter, exitCode, apiVars, histVars>>

\* `while self.pending_transcriptions` is true: one more
\* check_completed_transcriptions (the sleep of 0.5 s follows PollEnd).
DrainPoll ==
    /\ mainPc = "drain"
    /\ DOMAIN pending_transcriptions # {}
    /\ pollTodo' = DOMAIN pending_transcriptions
    /\ completed' = {}
    /\ pollSize' = Cardinality(DOMAIN pending_transcriptions)
    /\ mainPc' = "drain_iter"
    /\ UNCHANGED <<recorderVars, segmentVars, poolVars,
                   pending_transcriptions, files, storeVars, now,
                   segment_counter, exitCode, apiVars, histVars>>

\* `while self.pending_transcriptions` is false: the drain is over.
DrainDone ==
    /\ mainPc = "drain"
    /\ DOMAIN pending_transcriptions = {}
    /\ mainPc' = "shutdown"
    /\ UNCHANGED <<recorderVars, segmentVars, poolVars,
                   pending_transcriptions, files, storeVars, now,
                   segment_counter, pollVars, exitCode, apiVars, histVars>>

\* executor.shutdown returning at once.
ShutdownNoWait == TRUE

\* self.executor.shutdown(wait=True) returns once no work item is queued or
\* executing
ShutdownMayReturn == executor_queue = <<>> /\ running = {}

ExecutorShutdown ==
    /\ mainPc = "shutdown"
    /\ ShutdownMayReturn
    /\ shutdownDone' = TRUE
    /\ mainPc' = "fin_json"
    /\ UNCHANGED <<recorderVars, segmentVars, max_workers, executor_queue,
                   running, futState, futResult, engineRaised,
                   pending_transcriptions, files, storeVars, now,
                   segment_counter, pollVars, exitCode, apiVars, histVars>>

\* finalize_session, "Finaliser le JSON", run by the control thread alone:
\* the session file is read, updated and written back (a failing read or
\* write would only be logged; the file is taken to be usable here).
FinalizeJson ==
    /\ mainPc = "fin_json"
    /\ json_file' = FinalizeData(json_file, now)
    /\ now' = now + 1
    /\ mainPc' = "cleanup"
    /\ UNCHANGED <<recorderVars, segmentVars, poolVars,
                   pending_transcriptions, files, json_lock,
                   segment_counter, pollVars, exitCode, apiVars, histVars>>

\* audio_recorder.cleanup() (stop_recording: recording = False, a join of at
\* most 2 s) and sys.exit(0)
Cleanup ==
    /\ mainPc = "cleanup"
    /\ recording' = FALSE
    /\ mainPc' = "exit"
    /\ exitCode' = <<0>>
    /\ UNCHANGED <<sample_rate, chunk_size, duration, recPc, audio_queue,
                   nread, pushed, segmentVars, poolVars,
                   pending_transcriptions, files, storeVars, now,
                   segment_counter, pollVars, apiVars, histVars>>

\* ------------------------------------------------------------ the program
Next ==
    \/ StartRecording
    \/ RecOpenOk
    \/ RecOpenFails
    \/ RecReadChunk
    \/ RecReadNothing
    \/ RecStop
    \/ PollBegin
    \/ PollSkip
    \/ PollSaved
    \/ PollFails
    \/ PollEnd
    \/ SegBegin
    \/ SegPop
    \/ SegTimeout
    \/ SegNoData
    \/ NoData
    \/ SegWrite
    \/ Submit
    \/ Register
    \/ Sleep
    \/ WorkerStart
    \/ \E s \in SegIds : WorkerFinish(s)
    \/ Interrupt
    \/ DrainPoll
    \/ DrainDone
    \/ ExecutorShutdown
    \/ FinalizeJson
    \/ Cleanup

Spec == Init /\ [][Next]_vars

\* The pool's worker threads are operating-system threads: a worker that
\* can take a work item does, and an engine call that has started returns or
\* raises.
SpecFair ==
    /\ Spec
    /\ WF_vars(WorkerStart)
    /\ WF_vars(\E s \in SegIds : WorkerFinish(s))

\* The program with a control thread that keeps running inside
\* get_audio_segment: queue.get(timeout=2.0) returns or raises queue.Empty
\* within two seconds, and the statements after the loop are not blocking, so
\* a pass that can be taken is taken. Nothing is assumed of the capture thread.
SpecFairSeg ==
    /\ Spec
    /\ WF_vars(SegPop \/ SegTimeout)
    /\ WF_vars(SegNoData \/ SegWrite)

\* The program with the positions of a failing read made visible.
NextRec ==
    \/ Next
    \/ RecReadFails
    \/ RecContinue

SpecRec == Init /\ [][NextRec]_vars

\* ------------------------------------------------- store-level specification
\* Caller threads use the session store directly: each makes up to MaxCalls
\* calls of save_transcription or finalize_session (nothing pending, so the
\* drain loop and the executor shutdown pass at once), one statement a step.
ApiTexts == { <<"w">>, <<"s", "w", "s">> }

\* `with self.json_lock` entered without looking at the lock.
LockIgnored == TRUE

\* `with self.json_lock` can be entered: the lock is free
LockFree == json_lock = NoThread

\* save_transcription is called: the entry is built (text.strip()).
ApiSaveCall(t) ==
    /\ apiPc[t] = "idle"
    /\ apiCalls[t] < MaxCalls
    /\ \E text \in ApiTexts :
        apiEntry' = [apiEntry EXCEPT ![t] = TranscriptionEntry(text, now)]
    /\ now' = now + 1
    /\ apiCalls' = [apiCalls EXCEPT ![t] = @ + 1]
    /\ apiPc' = [apiPc EXCEPT ![t] = "save_lock"]
    /\ UNCHANGED <<recorderVars, segmentVars, poolVars,
                   pending_transcriptions, files, storeVars, mainPc,
                   segment_counter, pollVars, exitCode, apiData, returned,
                   histVars>>

\* finalize_session is called with nothing pending and an idle pool.
ApiFinalizeCall(t) ==
    /\ apiPc[t] = "idle"
    /\ apiCalls[t] < MaxCalls
    /\ DOMAIN pending_transcriptions = {}
    /\ ShutdownMayReturn
    /\ shutdownDone' = TRUE
    /\ apiCalls' = [apiCalls EXCEPT ![t] = @ + 1]
    /\ apiPc' = [apiPc EXCEPT ![t] = "fin_lock"]
    /\ UNCHANGED <<recorderVars, segmentVars, max_workers, executor_queue,
                   running, futState, futResult, engineRaised,
                   pending_transcriptions, files, storeVars, now, mainPc,
                   segment_counter, pollVars, exitCode, apiData, apiEntry,
                   returned, histVars>>

\* with self.json_lock: (of either method)
ApiAcquire(t) ==
    /\ apiPc[t] \in {"save_lock", "fin_lock"}
    /\ LockFree
    /\ json_lock' = t
    /\ apiPc' = [apiPc EXCEPT ![t] =
                    IF apiPc[t] = "save_lock" THEN "save_read" ELSE "fin_read"]
    /\ UNCHANGED <<recorderVars, segmentVars, poolVars,
                   pending_transcriptions, files, json_file, now, mainPc,
                   segment_counter, pollVars, exitCode, apiData, apiEntry,
                   apiCalls, returned, histVars>>

\* data = json.load(f) (of either method)
ApiRead(t) ==
    /\ apiPc[t] \in {"save_read", "fin_read"}
    /\ apiData' = [apiData EXCEPT ![t] = json_file]
    /\ apiPc' = [apiPc EXCEPT ![t] =
                    IF apiPc[t] = "save_read" THEN "save_write" ELSE "fin_write"]
    /\ UNCHANGED <<recorderVars, segmentVars, poolVars,
                   pending_transcriptions, files, storeVars, now, mainPc,
                   segment_counter, pollVars, exitCode, apiEntry, apiCalls,
                   returned, histVars>>

\* save_transcription: append, json.dump, the lock is released, return.
ApiSaveWrite(t) ==
    /\ apiPc[t] = "save_write"
    /\ json_file' = AppendEntry(apiData[t], apiEntry[t])
    /\ json_lock' = NoThread
    /\ returned' = returned \cup {apiEntry[t]}
    /\ apiPc' = [apiPc EXCEPT ![t] = "idle"]
    /\ UNCHANGED <<recorderVars, segmentVars, poolVars,
                   pending_transcriptions, files, now, mainPc,
                   segment_counter, pollVars, exitCode, apiData, apiEntry,
                   apiCalls, histVars>>

\* finalize_session: the three fields are set, json.dump, the lock is
\* released, return.
ApiFinalizeWrite(t) ==
    /\ apiPc[t] = "fin_write"
    /\ json_file' = FinalizeData(apiData[t], now)
    /\ now' = now + 1
    /\ json_lock' = NoThread
    /\ apiPc' = [apiPc EXCEPT ![t] = "idle"]
    /\ UNCHANGED <<recorderVars, segmentVars, poolVars,
                   pending_transcriptions, files, mainPc, segment_counter,
                   pollVars, exitCode, apiData, apiEntry, apiCalls,
                   returned, histVars>>

InitApiSpec ==
    /\ sample_rate = ModelSampleRate
    /\ chunk_size = ModelChunkSize
    /\ duration = <<ModelDuration, 1>>
    /\ InitRecorder
    /\ InitSegmenter
    /\ InitClient
    /\ InitMain
    /\ InitApi
    /\ mainPc = "api"

NextApi ==
    \E t \in Threads :
        \/ ApiSaveCall(t)
        \/ ApiFinalizeCall(t)
        \/ ApiAcquire(t)
        \/ ApiRead(t)
        \/ ApiSaveWrite(t)
        \/ ApiFinalizeWrite(t)

SpecApi == InitApiSpec /\ [][NextApi]_vars

\* -------------------------------------------- dispatcher-level specification
\* Threads of a caller use one ParallelTranscriptionClient: the control thread
\* has called finalize_session, every other thread calls
\* transcribe_audio_async once with a segment file of its own.

\* The segment id thread t passes to transcribe_audio_async.
TaskOf(t) == t - 1

\* transcribe_audio_async, first statement, the executor accepting the work
\* item: executor.submit(...) returns a future (the caller has written the
\* audio file it passes).
ApiSubmit(t) ==
    /\ apiPc[t] = "idle"
    /\ apiCalls[t] < MaxCalls
    /\ TaskOf(t) \in SegIds
    /\ ~shutdownDone
    /\ files' = files \cup {TaskOf(t)}
    /\ executor_queue' = Append(executor_queue, TaskOf(t))
    /\ futState' = [futState EXCEPT ![TaskOf(t)] = "queued"]
    /\ apiPc' = [apiPc EXCEPT ![t] = "register"]
    /\ apiCalls' = [apiCalls EXCEPT ![t] = @ + 1]
    /\ UNCHANGED <<recorderVars, segmentVars, max_workers, running,
                   futResult, engineRaised, shutdownDone,
                   pending_transcriptions, storeVars, now, mainPc,
                   segment_counter, pollVars, exitCode, apiData, apiEntry,
                   returned, histVars>>

\* transcribe_audio_async, first statement, after executor.shutdown has been
\* called (the control thread is in the call or past it): executor.submit
\* raises RuntimeError and the call ends there.
ApiSubmitRejected(t) ==
    /\ apiPc[t] = "idle"
    /\ apiCalls[t] < MaxCalls
    /\ TaskOf(t) \in SegIds
    /\ shutdownDone \/ mainPc = "shutdown"
    /\ apiCalls' = [apiCalls EXCEPT ![t] = @ + 1]
    /\ UNCHANGED <<recorderVars, segmentVars, poolVars,
                   pending_transcriptions, files, storeVars, now, mainPc,
                   segment_counter, pollVars, exitCode, apiPc, apiData,
                   apiEntry, returned, histVars>>

\* transcribe_audio_async, second statement: the task enters the table.
ApiRegister(t) ==
    /\ apiPc[t] = "register"
    /\ pending_transcriptions' =
           [s \in (DOMAIN pending_transcriptions) \cup {TaskOf(t)} |->
               IF s = TaskOf(t)
               THEN [audio_file |-> TaskOf(t), timestamp |-> now]
               ELSE pending_transcriptions[s]]
    /\ now' = now + 1
    /\ apiPc' = [apiPc EXCEPT ![t] = "idle"]
    /\ UNCHANGED <<recorderVars, segmentVars, poolVars, files, storeVars,
                   mainPc, segment_counter, pollVars, exitCode, apiData,
                   apiEntry, apiCalls, returned, histVars>>

\* The for loop of check_completed_transcriptions steps after another thread
\* has added a task to the table: RuntimeError (dictionary changed size during
\* iteration), which nothing in finalize_session catches.
PollIterRaises ==
    /\ mainPc = "drain_iter"
    /\ ~DictSameSize
    /\ pollTodo' = {}
    /\ completed' = {}
    /\ pollSize' = 0
    /\ mainPc' = "fin_raised"
    /\ UNCHANGED <<recorderVars, segmentVars, poolVars,
                   pending_transcriptions, files, storeVars, now,
                   segment_counter, exitCode, apiVars, histVars>>

InitDisp ==
    /\ sample_rate = ModelSampleRate
    /\ chunk_size = ModelChunkSize
    /\ duration = <<ModelDuration, 1>>
    /\ InitRecorder
    /\ InitSegmenter
    /\ InitClient
    /\ InitMain
    /\ InitApi
    /\ mainPc = "drain"

NextDisp ==
    \/ DrainPoll
    \/ DrainDone
    \/ PollSkip
    \/ PollSaved
    \/ PollFails
    \/ PollIterRaises
    \/ PollEnd
    \/ ExecutorShutdown
    \/ FinalizeJson
    \/ WorkerStart
    \/ \E s \in SegIds : WorkerFinish(s)
    \/ \E t \in Threads : ApiSubmit(t)
    \/ \E t \in Threads : ApiSubmitRejected(t)
    \/ \E t \in Threads : ApiRegister(t)

SpecDisp == InitDisp /\ [][NextDisp]_vars

\* --------------------------------------------- segmenter-level specification
\* One call of get_audio_segment on a pre-loaded queue, nothing pushed
\* meanwhile, for several recorder configurations. The chunk sizes are
\* powers of two and the products far from an integer or exact, so the
\* floating-point product of the code and the exact quotient truncate alike.
SegSampleRates == {22050, 44100}
SegChunkSizes == {1024, 2048}
SegDurations == { <<23, 50>>, <<1, 1>>, <<10, 1>> }

Preload(n) == [k \in 1 .. n |-> k]

InitSeg ==
    /\ sample_rate \in SegSampleRates
    /\ chunk_size \in SegChunkSizes
    /\ duration \in SegDurations
    /\ recording = FALSE
    /\ recPc = "idle"
    /\ \E n \in 0 .. MaxPreload :
        /\ audio_queue = Preload(n)
        /\ pushed = Preload(n)
        /\ nread = n
    /\ InitSegmenter
    /\ InitClient
    /\ InitMain
    /\ InitApi
    /\ mainPc = "collect"

NextSeg ==
    \/ SegBegin
    \/ SegPop
    \/ SegTimeout
    \/ SegNoData
    \/ SegWrite

SpecSeg == InitSeg /\ [][NextSeg]_vars

\* ===================================================================== claims
IsPrefix(a, b) ==
    /\ Len(a) <= Len(b)
    /\ \A i \in 1 .. Len(a) : a[i] = b[i]

\* Tasks handed to the executor so far.
Submitted == {s \in SegIds : futState[s] # "none"}

\* Tasks that were in the pending table and have left it.
LeftTable == {s \in SegIds : s < segment_counter} \ DOMAIN pending_transcriptions

Entries == {json_file.transcriptions[i] : i \in 1 .. Len(json_file.transcriptions)}

\* C1: in every reachable state the number of _transcribe_single calls that
\* are executing is at most max_workers (and every executing task is one
\* that was submitted and has not finished).
C1_AtMostMaxWorkersExecuting ==
    /\ Cardinality(running) <= max_workers
    /\ \A s \in running : futState[s] = "running"

\* C1, k <= m: two tasks submitted to a pool of two workers execute at the
\* same time.
C1_Witness ==
    /\ max_workers = DefaultMaxWorkers
    /\ Cardinality(running) = DefaultMaxWorkers
    /\ executor_queue = <<>>

\* C2: when every caller has returned, the session record holds exactly the
\* entries of the save_transcription calls that were made, each once; and at
\* every moment each entry whose call returned is in the record exactly once.
C2_NoLostOrDuplicatedEntry ==
    /\ \A e \in returned :
           Cardinality({i \in 1 .. Len(json_file.transcriptions) :
                           json_file.transcriptions[i] = e}) = 1
    /\ (\A t \in Threads : apiPc[t] = "idle") =>
           /\ Entries = returned
           /\ Len(json_file.transcriptions) = Cardinality(returned)

\* C2: every thread has called save_transcription and all have returned.
C2_Witness ==
    /\ \A t \in Threads : apiPc[t] = "idle" /\ apiCalls[t] >= 1
    /\ Cardinality(returned) = NumThreads

\* C3: the chunks the segmenter has got from audio_queue are, in order, the
\* first chunks the capture thread has put, and the queue holds the rest in
\* the order they were put.
C3_Fifo ==
    /\ IsPrefix(popped, pushed)
    /\ pushed = popped \o audio_queue

\* C3: the segmenter has popped several chunks while the producer was ahead.
C3_Witness ==
    /\ Len(popped) >= 2
    /\ audio_queue # <<>>
    /\ recPc = "loop"

\* C4: when the session record says completed, the pending table is empty
\* and no submitted task is queued or executing.
C4_FinalizedOnlyAfterDrain ==
    json_file.status = "completed" =>
        /\ DOMAIN pending_transcriptions = {}
        /\ executor_queue = <<>>
        /\ running = {}
        /\ \A s \in Submitted : futState[s] = "done"

\* C4: the session is completed after a shutdown that found every segment
\* of the run submitted and at least one task gone from the table.
C4_Witness ==
    /\ json_file.status = "completed"
    /\ Cardinality(Submitted) = MaxSegments
    /\ LeftTable # {}

\* C5 (as claimed): the temporary audio file of every task that has left the
\* pending table is deleted.
C5_FileDeletedWhenTaskLeaves ==
    \A s \in LeftTable : s \notin files

\* C6: a task whose engine call raised resolves to the empty string, and
\* every task handed to the pool is eventually done, whatever happened to
\* the others.
C6_EngineFailureContained ==
    /\ [](\A s \in engineRaised :
             futState[s] = "done" /\ futResult[s] = TextResult(<<>>))
    /\ \A s \in SegIds :
           (futState[s] \in {"queued", "running"}) ~> (futState[s] = "done")

\* C6: with one worker, the first task's engine call raised and the task
\* queued behind it ran and produced a text.
C6_Witness ==
    /\ max_workers = 1
    /\ 0 \in engineRaised
    /\ 1 \notin engineRaised
    /\ futState[1] = "done"
    /\ futResult[1] = TextResult(<<"w">>)

C8_StatusActiveUntilFinalized ==
    [][/\ json_file.status \in {"active", "completed"}
       /\ json_file'.status \in {"active", "completed"}
       /\ (json_file.status = "completed" => json_file'.status = "completed")
       /\ (json_file'.status # json_file.status =>
              \E t \in Threads : apiPc[t] = "fin_write" /\ apiPc'[t] = "idle")
      ]_vars

\* C8: an entry was appended after the session was finalized, and the status
\* is still completed.
C8_Witness ==
    /\ json_file.status = "completed"
    /\ json_file.total_transcriptions # <<>>
    /\ Len(json_file.transcriptions) > json_file.total_transcriptions[1]

\* The call of get_audio_segment is over.
SegCallOver == mainPc \in {"no_data", "submit"}

ScenarioC9 ==
    /\ sample_rate = 22050
    /\ chunk_size = 1024
    /\ duration = <<23, 50>>
    /\ Len(pushed) = 10

\* C9 (as claimed): the number of chunks a call tries to collect is the
\* quotient d * sampleRate / chunkFrameCount rounded up, and in the scenario
\* (10 chunks of 1024 frames, 22050 Hz, 0.46 s) the segment holds all 10.
C9_CeilFrames ==
    SegCallOver =>
        /\ (segI - 1) * chunk_size * duration[2] < sample_rate * duration[1]
        /\ sample_rate * duration[1] <= segI * chunk_size * duration[2]
        /\ (ScenarioC9 => Len(frames) = 10)

\* C9 (amended): the number of chunks a call tries to collect is the
\* quotient rounded down, and in the scenario the segment holds the first 9
\* chunks in order and the tenth stays in the queue.
C9_FloorFrames ==
    SegCallOver =>
        /\ segI * chunk_size * duration[2] <= sample_rate * duration[1]
        /\ sample_rate * duration[1] < (segI + 1) * chunk_size * duration[2]
        /\ (ScenarioC9 =>
               /\ frames = Preload(9)
               /\ audio_queue = <<10>>)

\* C9: the scenario's call is over.
C9_Witness ==
    /\ ScenarioC9
    /\ mainPc = "submit"
    /\ segI = 9
    /\ Len(frames) = 9

\* C10 (as claimed): no entry of the session record has an empty or
\* all-whitespace text.
C10_OnlyNonBlankStored ==
    \A e \in Entries : Strip(e.text) # <<>>

\* C11 (as claimed): once opening the capture device has failed, the control
\* loop starts no further segment collection, and the exit status the
\* program ends with is not zero.
C11_OpenFailureIsFatal ==
    [][recPc = "open_failed" =>
          /\ ~(mainPc = "collect" /\ mainPc' = "seg_loop")
          /\ (exitCode' # <<>> => exitCode' # <<0>>)]_vars

\* C12: a call of get_audio_segment in which every get timed out returns None
\* and writes no segment file; a call that returns a segment returns one that
\* holds at least one chunk and whose file exists.
C12_NoEmptySegment ==
    /\ mainPc = "no_data" => frames = <<>> /\ segment_counter \notin files
    /\ mainPc = "submit" => frames # <<>> /\ segment_counter \in files
    /\ (SegCallOver /\ empty_count = frames_needed) => mainPc = "no_data"

\* A call made while the capture thread was reading has ended with every one
\* of its frames_needed attempts timed out.
C12_Witness ==
    /\ mainPc = "no_data"
    /\ recPc = "loop"
    /\ empty_count = frames_needed
    /\ segment_counter \notin files

\* C13: when exactly frames_needed chunks are in the queue as
\* get_audio_segment is called and nothing is pushed during the call, the call
\* returns a segment made of exactly those chunks in the order they were
\* pushed, and leaves the queue empty.
C13_ExactPreloadReturnedInOrder ==
    (SegCallOver /\ Len(pushed) = frames_needed) =>
        /\ mainPc = "submit"
        /\ frames = pushed
        /\ audio_queue = <<>>
        /\ empty_count = 0

\* 10 chunks of 2048 frames pre-loaded at 22050 Hz, one second asked for
\* (frames_needed = 10): the call has returned its segment.
C13_Witness ==
    /\ mainPc = "submit"
    /\ sample_rate = 22050 /\ chunk_size = 2048 /\ duration = <<1, 1>>
    /\ Len(pushed) = 10
    /\ frames = pushed
    /\ audio_queue = <<>>

\* The control thread is inside the loop of check_completed_transcriptions.
InPoll == mainPc \in {"poll_iter", "drain_iter"}

\* C14: check_completed_transcriptions never waits on an unfinished task.
\* Whatever the state of the task the loop is at, the loop can take its step;
\* a task is put in completed when, and only when, its future is done as it is
\* inspected; the call removes from the table exactly the tasks in completed;
\* and nothing the call does changes the future, the audio file or the table
\* entry of a task that was not finished.
C14_PollNeverWaits ==
    /\ [](InPoll /\ pollTodo # {} =>
             ENABLED (PollSkip \/ PollSaved \/ PollFails))
    /\ [](\A s \in completed : futState[s] = "done")
    /\ [][(InPoll /\ mainPc' = mainPc) =>
             \A s \in pollTodo \ pollTodo' :
                 /\ s \in completed' <=> futState[s] = "done"
                 /\ futState[s] # "done" =>
                       /\ s \in DOMAIN pending_transcriptions'
                       /\ pending_transcriptions'[s] =
                              pending_transcriptions[s]
                       /\ futState'[s] = futState[s]
                       /\ futResult'[s] = futResult[s]
                       /\ (pending_transcriptions[s].audio_file \in files
                             <=> pending_transcriptions[s].audio_file
                                    \in files')]_vars
    /\ [][(InPoll /\ mainPc' \notin {mainPc, "drain"}) =>
             /\ DOMAIN pending_transcriptions' =
                    (DOMAIN pending_transcriptions) \ completed
             /\ \A s \in DOMAIN pending_transcriptions' :
                    pending_transcriptions'[s] = pending_transcriptions[s]]_vars

\* Inside one call in the control loop, the loop has gone over both tasks:
\* task 0 was finished and is in completed, task 1 is still queued or running
\* and was left in the table.
C14_Witness ==
    /\ mainPc = "poll_iter"
    /\ pollTodo = {}
    /\ completed = {0}
    /\ 1 \in DOMAIN pending_transcriptions
    /\ futState[1] \in {"queued", "running"}

\* C15: the chunks of the segments get_audio_segment has returned, put one
\* after the other in the order of the calls, are a prefix of the sequence of
\* chunks the capture thread pushed: none is skipped, none appears twice, in
\* one segment or in two.
C15_SegmentsArePrefixOfPushed ==
    /\ IsPrefix(delivered, pushed)
    /\ \A i, j \in 1 .. Len(delivered) :
           delivered[i] = delivered[j] => i = j
    /\ mainPc = "seg_loop" => IsPrefix(delivered \o frames, pushed)

\* The second call has returned its segment; the two segments hold the three
\* chunks pushed.
C15_Witness ==
    /\ mainPc = "submit"
    /\ segment_counter = 1
    /\ Len(frames) >= 1
    /\ Len(delivered) = 3
    /\ delivered = pushed

\* C16: when the try block of check_completed_transcriptions raises for one
\* task (the append to the session file fails), the call goes on: the control
\* thread stays in the loop of the call with the other tasks of the table
\* still to be inspected, the failed task is put in completed, the capture
\* thread is not disturbed and the program does not exit.
C16_SaveFailureContained ==
    [][saveFailed' # saveFailed =>
          /\ InPoll
          /\ mainPc' = mainPc
          /\ saveFailed' = saveFailed \cup {NextItem}
          /\ pollTodo' = pollTodo \ {NextItem}
          /\ completed' = completed \cup {NextItem}
          /\ recording' = recording
          /\ recPc' = recPc
          /\ audio_queue' = audio_queue
          /\ exitCode' = <<>>
          /\ exitCode = <<>>]_vars

\* The save of task 0 failed in a call made by the control loop; the loop
\* went on, collected the next segment while the capture thread is still
\* reading, and has handed it to the pool.
C16_Witness ==
    /\ 0 \in saveFailed
    /\ mainPc = "register"
    /\ segment_counter = 1
    /\ futState[1] = "queued"
    /\ recPc = "loop"
    /\ recording

\* C17: a call of get_audio_segment that ends with at least one chunk
\* collected, although some of its gets timed out, returns a segment made of
\* the chunks collected (fewer than frames_needed) and writes its file; and
\* the control loop, once a segment is returned, hands that segment to the
\* pool instead of dropping it.
C17_PartialSegmentSubmitted ==
    /\ [][(mainPc = "seg_loop" /\ segI = frames_needed /\ frames # <<>>
             /\ mainPc' \notin {"seg_loop", "drain"}) =>
             /\ mainPc' = "submit"
             /\ frames' = frames
             /\ files' = files \cup {segment_counter}]_vars
    /\ [](mainPc = "submit" =>
             /\ Len(frames) \in 1 .. frames_needed
             /\ ENABLED Submit)
    /\ [][(mainPc = "submit" /\ mainPc' \notin {"submit", "drain"}) =>
             /\ mainPc' = "register"
             /\ futState'[segment_counter] = "queued"
             /\ segment_counter \in files']_vars

\* A call has returned a segment of fewer chunks than frames_needed, after a
\* timeout, and its file is on disk.
C17_Witness ==
    /\ mainPc = "submit"
    /\ frames # <<>>
    /\ Len(frames) < frames_needed
    /\ segment_counter \in files
    /\ futState[segment_counter] = "none"

\* C18: every call of get_audio_segment ends after at most frames_needed
\* attempts to get a chunk. The loop index never passes frames_needed, an
\* attempt can always be made while it is below, each attempt (a chunk or a
\* timeout) adds one to it, and a call that has started comes to its end,
\* whatever the capture thread does.
C18_CallTerminates ==
    /\ [](segI <= frames_needed)
    /\ [](mainPc = "seg_loop" /\ segI < frames_needed =>
             ENABLED (SegPop \/ SegTimeout))
    /\ [][(mainPc = "seg_loop" /\ mainPc' = "seg_loop") =>
             segI' \in {segI, segI + 1}]_vars
    /\ (mainPc = "seg_loop") ~> (mainPc # "seg_loop")

\* A call has ended on timeouts alone, the capture thread having failed to
\* open the device and so never pushed a chunk.
C18_Witness ==
    /\ mainPc = "no_data"
    /\ recPc = "open_failed"
    /\ pushed = <<>>
    /\ segI = frames_needed
    /\ empty_count = frames_needed

\* The control thread is in finalize_session, or the call is over.
FinalizeInvoked ==
    mainPc \in {"drain", "drain_iter", "shutdown", "fin_json", "cleanup",
                "fin_raised"}

C20_ReadFailureEndsCapture ==
    [][recPc = "read_error" => recPc' \in {"read_error", "exited"}]_vars

\* C21 (as claimed): the result of a submitted task is handed to the session
\* store at most once. The session file never holds more entries than tasks
\* were submitted, and a task whose result was saved by one call of
\* check_completed_transcriptions has left the pending table when that call
\* is over, so that no later call finds it.
C21_ResultStoredAtMostOnce ==
    /\ Len(json_file.transcriptions) <= Cardinality(Submitted)
    /\ ~InPoll =>
          \A s \in DOMAIN pending_transcriptions :
              \A i \in 1 .. Len(json_file.transcriptions) :
                  json_file.transcriptions[i].timestamp #
                      pending_transcriptions[s].timestamp

\* C22: in get_audio_segment a get that timed out uses up one of the
\* frames_needed attempts. While a call runs, chunks collected plus timeouts
\* is the number of attempts made; when it is over that number is
\* frames_needed, so the segment holds frames_needed chunks less one for each
\* timeout, and never more than frames_needed.
C22_TimeoutUsesAnAttempt ==
    /\ mainPc = "seg_loop" => Len(frames) + timeouts = segI
    /\ SegCallOver =>
          /\ Len(frames) + timeouts = frames_needed
          /\ Len(frames) <= frames_needed

\* A call is over whose first get timed out and whose next get found a chunk
\* that had arrived in between: the segment is one chunk short.
C22_Witness ==
    /\ mainPc = "submit"
    /\ timeouts = 1
    /\ empty_count = 0
    /\ Len(frames) = frames_needed - 1
    /\ segment_counter \in files

====
